---- MODULE Spec2Model ----
(***************************************************************************)
(* Model of the video retrieval-and-archival pipeline:                     *)
(*   - the task scheduler       (backend/src/services/scheduledTasks.ts)   *)
(*   - the relay orchestrator   (downloadAndUploadVideoToDrive)            *)
(*   - the Telegram downloader  (downloadTelegramVideoToTemp)              *)
(* Spec    is the scheduler: schedule / cancel / cancelAll / timer events. *)
(* SpecRun is one run of the orchestrator, the downloader inlined, every   *)
(*         collaborator answering nondeterministically.                    *)
(***************************************************************************)
EXTENDS Integers, Sequences, FiniteSets, TLC

VARIABLES
    \* ---- scheduler (scheduledTasks.ts) ----
    now,            \* Date.now(), in milliseconds
    activeTasks,    \* the Map<string, ScheduledTask>, in insertion order
    timers,         \* every timer setTimeout ever created, by handle
    cancelledArmed, \* history: handles whose task cancelScheduledTask removed
                    \* (returning true) while the timer had not fired
    cancelledFired, \* history: the same, the timer having fired already
    \* ---- one orchestrator run (downloadAndUploadVideoToDrive) ----
    pc,             \* position of the run
    env,            \* what the run has read from its environment so far
    run,            \* the run's local variables
    staging,        \* files present in TMP_DIR
    log             \* history: calls the run made on its collaborators

schedVars == <<now, activeTasks, timers, cancelledArmed, cancelledFired>>
runVars   == <<pc, env, run, staging, log>>
vars      == <<now, activeTasks, timers, cancelledArmed, cancelledFired,
               pc, env, run, staging, log>>

(***************************************************************************)
(* Bounds                                                                  *)
(***************************************************************************)
MaxTimers == 3
MaxNowMinutes == 1

(***************************************************************************)
(* Scheduler                                                               *)
(***************************************************************************)
MsPerMinute == 60 * 1000
MaxTimerDelay == 2147483647

\* The ids callers pass are arbitrary strings; "_" is also the separator of
\* the task id, so ("a", "b_c") and ("a_b", "c") compose the same prefix.
Pairs == {<<"a", "b_c">>, <<"a_b", "c">>}
UserIds == {"u1"}
MessageIds == {7}
DelayMinutes == {1, 2}

\* `${channelId}_${scheduleId}_${Date.now()}`
TaskIdOf(channelId, scheduleId, t) ==
    channelId \o "_" \o scheduleId \o "_" \o ToString(t)

\* setTimeout(cb, ms): Node arms the timer for 1 ms when ms < 1 or ms > 2^31-1
TimerDelay(ms) == IF ms < 1 \/ ms > MaxTimerDelay THEN 1 ELSE ms

\* Map operations on the insertion-ordered table
MapHas(m, k) == \E i \in 1..Len(m) : m[i].id = k
MapGet(m, k) == m[CHOOSE i \in 1..Len(m) : m[i].id = k]
MapDelete(m, k) == SelectSeq(m, LAMBDA t : t.id # k)
MapSet(m, k, v) ==
    IF MapHas(m, k)
    THEN [i \in 1..Len(m) |-> IF m[i].id = k THEN v ELSE m[i]]
    ELSE Append(m, v)

SamePair(t, channelId, scheduleId) ==
    t.channelId = channelId /\ t.scheduleId = scheduleId

\* Array.from(activeTasks.values()).find(...): index of the first match, 0 if none
FindExisting(m, channelId, scheduleId) ==
    IF \E i \in 1..Len(m) : SamePair(m[i], channelId, scheduleId)
    THEN CHOOSE i \in 1..Len(m) :
            /\ SamePair(m[i], channelId, scheduleId)
            /\ \A j \in 1..(i - 1) : ~SamePair(m[j], channelId, scheduleId)
    ELSE 0

\* clearTimeout(h): disarms a timer that has not fired; no effect otherwise
ClearTimeout(ts, h) ==
    IF h \in 1..Len(ts) /\ ts[h].state = "armed"
    THEN [ts EXCEPT ![h].state = "cleared"]
    ELSE ts

\* getActiveTasks(): the summaries, in table order
getActiveTasks ==
    [i \in 1..Len(activeTasks) |->
        [id |-> activeTasks[i].id,
         channelId |-> activeTasks[i].channelId,
         scheduleId |-> activeTasks[i].scheduleId,
         userId |-> activeTasks[i].userId,
         runAt |-> activeTasks[i].runAt,
         telegramMessageId |-> activeTasks[i].telegramMessageId]]

\* scheduleAutoDownload, lines 45-59: the table after the existing task of the
\* pair (the first match) has been dropped
ScheduleDropExisting_tasks(channelId, scheduleId) ==
    LET i == FindExisting(activeTasks, channelId, scheduleId)
    IN  IF i # 0 /\ activeTasks[i].timeoutId # 0
        THEN MapDelete(activeTasks, activeTasks[i].id)
        ELSE activeTasks

\* scheduleAutoDownload, line 57: the timers after the existing task's timer
\* has been cleared
ScheduleDropExisting_timers(channelId, scheduleId) ==
    LET i == FindExisting(activeTasks, channelId, scheduleId)
    IN  IF i # 0 /\ activeTasks[i].timeoutId # 0
        THEN ClearTimeout(timers, activeTasks[i].timeoutId)
        ELSE timers

scheduleAutoDownload(channelId, scheduleId, userId, messageId, delayMinutes) ==
    /\ Len(timers) < MaxTimers
    /\ LET taskId  == TaskIdOf(channelId, scheduleId, now)
           delayMs == delayMinutes * MsPerMinute
           runAt   == now + delayMs
           h       == Len(timers) + 1
           task    == [id |-> taskId, channelId |-> channelId,
                       scheduleId |-> scheduleId, userId |-> userId,
                       runAt |-> runAt, telegramMessageId |-> messageId,
                       timeoutId |-> h]
           timer   == [taskId |-> taskId, channelId |-> channelId,
                       scheduleId |-> scheduleId,
                       due |-> now + TimerDelay(delayMs),
                       state |-> "armed", invoked |-> 0]
       IN  /\ timers' = Append(ScheduleDropExisting_timers(channelId, scheduleId), timer)
           /\ activeTasks' =
                 MapSet(ScheduleDropExisting_tasks(channelId, scheduleId), taskId, task)
    /\ UNCHANGED <<now, cancelledArmed, cancelledFired>>

\* a function that first reads telegramMessageInfo.messageId after the
\* existing task of the pair has been dropped
MissingInfoRaisedAt_afterDrop == "afterDrop"

\* the first read of telegramMessageInfo.messageId is in the arguments of the
\* Logger.info call of lines 35-43, before the existing task is looked up
MissingInfoRaisedAt == "log"

\* scheduleAutoDownload called without telegramMessageInfo: line 40 reads
\* telegramMessageInfo.messageId and raises before anything is changed
scheduleAutoDownloadMissingInfo(channelId, scheduleId) ==
    /\ IF MissingInfoRaisedAt = "log"
       THEN UNCHANGED <<activeTasks, timers>>
       ELSE /\ timers' = ScheduleDropExisting_timers(channelId, scheduleId)
            /\ activeTasks' = ScheduleDropExisting_tasks(channelId, scheduleId)
    /\ UNCHANGED <<now, cancelledArmed, cancelledFired>>

\* what cancelScheduledTask(taskId) returns: whether the table held the id
cancelScheduledTask_ret(taskId) == MapHas(activeTasks, taskId)

\* a count of every entry of the table, whatever its pair
cancelTasksForSchedule_ret_all(channelId, scheduleId) == Len(activeTasks)

\* what cancelTasksForSchedule returns: the number of entries it deleted
cancelTasksForSchedule_ret(channelId, scheduleId) ==
    Cardinality({i \in 1..Len(activeTasks) :
                    SamePair(activeTasks[i], channelId, scheduleId)})

\* a cancelScheduledTask that forgets clearTimeout
cancelScheduledTask_timers_noClear(taskId) == timers

\* cancelScheduledTask, lines 144-146
cancelScheduledTask_timers(taskId) ==
    IF MapGet(activeTasks, taskId).timeoutId # 0
    THEN ClearTimeout(timers, MapGet(activeTasks, taskId).timeoutId)
    ELSE timers

cancelScheduledTask(taskId) ==
    /\ IF ~MapHas(activeTasks, taskId)
       THEN UNCHANGED <<activeTasks, timers, cancelledArmed, cancelledFired>>
       ELSE LET h == MapGet(activeTasks, taskId).timeoutId
            IN  /\ timers' = cancelScheduledTask_timers(taskId)
                /\ activeTasks' = MapDelete(activeTasks, taskId)
                /\ cancelledArmed' =
                      IF timers[h].state = "armed"
                      THEN cancelledArmed \cup {h} ELSE cancelledArmed
                /\ cancelledFired' =
                      IF timers[h].state = "armed"
                      THEN cancelledFired ELSE cancelledFired \cup {h}
    /\ UNCHANGED now

\* cancelTasksForSchedule: every matching entry is cleared and deleted
RECURSIVE ClearAll(_, _)
ClearAll(ts, hs) ==
    IF hs = {} THEN ts
    ELSE LET h == CHOOSE x \in hs : TRUE
         IN  ClearAll(ClearTimeout(ts, h), hs \ {h})

cancelTasksForSchedule(channelId, scheduleId) ==
    /\ LET matching == {i \in 1..Len(activeTasks) :
                           SamePair(activeTasks[i], channelId, scheduleId)}
       IN  /\ timers' = ClearAll(timers,
                 {activeTasks[i].timeoutId : i \in matching} \ {0})
           /\ activeTasks' = SelectSeq(activeTasks,
                 LAMBDA t : ~SamePair(t, channelId, scheduleId))
    /\ UNCHANGED <<now, cancelledArmed, cancelledFired>>

\* The timer callback starts: it calls downloadAndUploadVideoToDrive and
\* suspends on the await (lines 62-78)
TimerFire(h) ==
    /\ timers[h].state = "armed"
    /\ now >= timers[h].due
    /\ timers' = [timers EXCEPT ![h].state = "running",
                                ![h].invoked = timers[h].invoked + 1]
    /\ UNCHANGED <<now, activeTasks, cancelledArmed, cancelledFired>>

\* The awaited run settles (success, failure result, or a rejection that the
\* catch logs); the finally deletes the task by its id (lines 80-107)
RunOutcomes == {"success", "failure", "throw"}

\* a callback without the catch of lines 96-103: a rejected run escapes
SettledState_noCatch(outcome) == IF outcome = "throw" THEN "raised" ELSE "done"

\* lines 80-103: a result is logged, a rejection is caught and logged; the
\* callback ends normally either way
SettledState(outcome) == "done"

TimerRunSettles(h, outcome) ==
    /\ timers[h].state = "running"
    /\ timers' = [timers EXCEPT ![h].state = SettledState(outcome)]
    /\ activeTasks' = MapDelete(activeTasks, timers[h].taskId)
    /\ UNCHANGED <<now, cancelledArmed, cancelledFired>>

\* Time passes, a minute at a time (calls made between two ticks read the
\* same Date.now())
Tick ==
    /\ now + MsPerMinute <= MaxNowMinutes * MsPerMinute
    /\ now' = now + MsPerMinute
    /\ UNCHANGED <<activeTasks, timers, cancelledArmed, cancelledFired>>

InitSched ==
    /\ now = 0
    /\ activeTasks = <<>>
    /\ timers = <<>>
    /\ cancelledArmed = {}
    /\ cancelledFired = {}

InitRunIdle ==
    /\ pc = "idle"
    /\ env = <<>>
    /\ run = <<>>
    /\ staging = {}
    /\ log = <<>>

Init == InitSched /\ InitRunIdle

Schedule ==
    \E p \in Pairs, u \in UserIds, m \in MessageIds, d \in DelayMinutes :
        scheduleAutoDownload(p[1], p[2], u, m, d)

ScheduleMissingInfo ==
    \E p \in Pairs : scheduleAutoDownloadMissingInfo(p[1], p[2])

\* callers cancel ids that scheduleAutoDownload returned
KnownTaskIds == {timers[h].taskId : h \in 1..Len(timers)}

Cancel == \E id \in KnownTaskIds : cancelScheduledTask(id)

CancelAll ==
    \E p \in Pairs : cancelTasksForSchedule(p[1], p[2])

Fire == \E h \in 1..Len(timers) : TimerFire(h)

Settle == \E h \in 1..Len(timers), o \in RunOutcomes : TimerRunSettles(h, o)

Next ==
    \/ Schedule /\ UNCHANGED runVars
    \/ ScheduleMissingInfo /\ UNCHANGED runVars
    \/ Cancel /\ UNCHANGED runVars
    \/ CancelAll /\ UNCHANGED runVars
    \/ Fire /\ UNCHANGED runVars
    \/ Settle /\ UNCHANGED runVars
    \/ Tick /\ UNCHANGED runVars

Spec == Init /\ [][Next]_vars

(***************************************************************************)
(* Downloader: downloadTelegramVideoToTemp (utils/telegramDownload)        *)
(***************************************************************************)
MAX_FILE_SIZE == 100 * 1024 * 1024
ListLimit == 50

\* An error message is the sequence of the parts it is composed of;
\* String.includes is a test for a part.
Includes(msg, part) == \E i \in 1..Len(msg) : msg[i] = part

\* the messages of the chat, most recent first
NoDoc == [present |-> FALSE, attrVideo |-> FALSE, mime |-> "", fileName |-> ""]
Prompt5 == [id |-> 5, date |-> 100, video |-> "none", doc |-> NoDoc]
Video7 == [id |-> 7, date |-> 200, video |-> "ok", doc |-> NoDoc]
Video4 == [id |-> 4, date |-> 50, video |-> "ok", doc |-> NoDoc]
DocVideo8 ==
    [id |-> 8, date |-> 300, video |-> "none",
     doc |-> [present |-> TRUE, attrVideo |-> TRUE, mime |-> "video/mp4",
              fileName |-> "clip.mp4"]]
\* a video whose date is missing: the sort falls back on its id (line 473)
Video9NoDate == [id |-> 9, date |-> 0, video |-> "ok", doc |-> NoDoc]
\* a document with the video attribute and neither a video MIME type nor a name
DocAttrOnly6 ==
    [id |-> 6, date |-> 150, video |-> "none",
     doc |-> [present |-> TRUE, attrVideo |-> TRUE, mime |-> "", fileName |-> ""]]
\* a document named and typed as a video that has no video attribute
DocNameOnly3 ==
    [id |-> 3, date |-> 40, video |-> "none",
     doc |-> [present |-> TRUE, attrVideo |-> FALSE, mime |-> "video/mp4",
              fileName |-> "clip.mp4"]]
Chats ==
    { <<>>,
      <<Prompt5>>,
      <<Video7, Prompt5>>,
      <<Video7, Prompt5, Video4>>,
      <<DocVideo8, Video7>>,
      <<Video9NoDate, Video7>>,
      <<DocAttrOnly6>>,
      <<DocNameOnly3>> }

\* getMessages(chatId, {limit: 50})
RecentWindow(chat) ==
    SubSeq(chat, 1, IF Len(chat) < ListLimit THEN Len(chat) ELSE ListLimit)

\* getMessages(chatId, {ids: [messageId]}): the message with that id, if any
MessagesById(chat, messageId) == SelectSeq(chat, LAMBDA m : m.id = messageId)

MimeIsVideo(doc) ==
    \/ doc.mime \in {"video/mp4", "video/webm"}
    \/ doc.mime = "application/octet-stream"
    \/ doc.fileName \in {"clip.mp4", "clip.mov"}

\* the filter of lines 424-456
IsVideoMessage(m) ==
    LET hasVideo == m.video = "ok"
        hasDocVideo == m.doc.present /\ m.doc.attrVideo /\ MimeIsVideo(m.doc)
    IN  hasVideo \/ hasDocVideo

\* the sort key of lines 457-494: the date in ms, the id when there is no date
SortKey(m) == IF m.date # 0 THEN m.date * 1000 ELSE m.id

\* Array.prototype.sort with (a, b) => key(b) - key(a): stable, descending
RECURSIVE InsertDesc(_, _)
InsertDesc(sorted, m) ==
    IF sorted = <<>> THEN <<m>>
    ELSE IF SortKey(Head(sorted)) >= SortKey(m)
         THEN <<Head(sorted)>> \o InsertDesc(Tail(sorted), m)
         ELSE <<m>> \o sorted

RECURSIVE SortDesc(_)
SortDesc(msgs) ==
    IF msgs = <<>> THEN <<>>
    ELSE LET n == Len(msgs)
         IN  InsertDesc(SortDesc(SubSeq(msgs, 1, n - 1)), msgs[n])

VideoMessages(window) == SortDesc(SelectSeq(window, IsVideoMessage))

\* downloadMedia yields bytes only for a message that carries media
HasMedia(m) == m.video = "ok" \/ m.doc.present
BufferSizes(m) ==
    IF HasMedia(m) THEN {0, 1, MAX_FILE_SIZE, MAX_FILE_SIZE + 1} ELSE {0}

\* errors of the chat transport
TransportErrors == { <<"FLOOD_WAIT">>, <<"PEER ", "not found">> }

ListTimeoutError == <<"Get messages ", "timeout", " after 30 seconds">>
FetchTimeoutError == <<"Download ", "timeout", " after 5 minutes">>
MessageNotFoundError(messageId) ==
    <<"Message with ID ", ToString(messageId), " ", "not found", " in chat">>
NoVideoFoundError == <<"NO_VIDEO_FOUND", ": video is not ready yet">>
EmptyFileError == <<"TELEGRAM_DOWNLOAD_FAILED", ": file is empty or damaged">>
FileTooLargeError == <<"FILE_TOO_LARGE", ": file is too large">>

IsTimeoutMessage(msg) == Includes(msg, "timeout") \/ Includes(msg, "TIMEOUT")

\* the catch around getMessages (lines 383-392 and 410-419)
ListCatch(msg) ==
    IF IsTimeoutMessage(msg)
    THEN <<"TELEGRAM_TIMEOUT", ": waiting for the messages took too long">>
    ELSE msg

\* the catch around downloadMedia (lines 560-580)
FetchCatch(msg) ==
    IF IsTimeoutMessage(msg)
    THEN <<"TELEGRAM_DOWNLOAD_TIMEOUT", ": waiting for the video took too long">>
    ELSE <<"TELEGRAM_DOWNLOAD_ERROR", ": ">> \o msg

\* the catch around the whole download (lines 633-656)
DownloadCatch(msg, messageId) ==
    IF Includes(msg, "NO_VIDEO_FOUND") THEN msg
    ELSE IF Includes(msg, "not found")
         THEN <<"TELEGRAM_MESSAGE_NOT_FOUND", ": message ", ToString(messageId),
                " is not in the chat">>
         ELSE <<"TELEGRAM_DOWNLOAD_ERROR", ": ">> \o msg

(***************************************************************************)
(* Orchestrator: downloadAndUploadVideoToDrive                             *)
(***************************************************************************)
TokenLifetimeMs == 3600000
TempPath == "tmp/1_abcd1234.mp4"
RunTimes == {1000}

\* String.prototype.trim on a sequence of characters
RECURSIVE TrimStart(_)
TrimStart(str) ==
    IF str # <<>> /\ Head(str) = " " THEN TrimStart(Tail(str)) ELSE str

RECURSIVE TrimEnd(_)
TrimEnd(str) ==
    IF str # <<>> /\ str[Len(str)] = " "
    THEN TrimEnd(SubSeq(str, 1, Len(str) - 1)) ELSE str

Trim(str) == TrimEnd(TrimStart(str))

\* folder ids as character sequences; <<>> is an absent or empty id
FolderIds == { <<>>, <<" ">>, <<"f">> }

\* channelData.googleDriveFolderId?.trim() || process.env...?.trim()
FinalFolderId(channelFolder, defaultFolder) ==
    IF Trim(channelFolder) # <<>> THEN Trim(channelFolder) ELSE Trim(defaultFolder)

\* a failure value that still carries the asset of the upload
Failure_keepsAsset(msg) ==
    [success |-> FALSE, error |-> msg, driveFileId |-> "driveS"]

\* lines 394-397 (and 102-105, 137-140, 155-158): the failure value
Failure(msg) == [success |-> FALSE, error |-> msg]

\* lines 206-226: the name given to the uploaded file
DriveFileName == "title.mp4"

RunOptions ==
    [telegramMessageId : {0, 5}, scheduleId : {"", "b_c"}]

InitRun ==
    /\ now \in RunTimes
    /\ activeTasks = <<>>
    /\ timers = <<>>
    /\ cancelledArmed = {}
    /\ cancelledFired = {}
    /\ pc = "start"
    /\ \E o \in RunOptions, sess \in {"", "session"}, chatId \in {"", "chat"},
          firestore \in BOOLEAN, dflt \in FolderIds :
          env = [options |-> o, stringSession |-> sess, SYNX_CHAT_ID |-> chatId,
                 firestore |-> firestore, defaultFolder |-> dflt,
                 channelFolder |-> <<>>, chat |-> <<>>]
    /\ run = [tempFilePath |-> "", pending |-> [kind |-> "none"],
              err |-> <<>>, videoMessage |-> Prompt5, bufferSize |-> 0,
              statSize |-> -1, hungAt |-> "", late |-> {},
              tokens |-> [present |-> FALSE], credentials |-> [present |-> FALSE],
              accessToken |-> "", oauthError |-> <<>>,
              driveResult |-> [fileId |-> ""], result |-> [success |-> FALSE, error |-> <<>>]]
    /\ staging = {}
    /\ log = <<>>

\* a precheck that forgets the destination chat id
PrecheckError_noChatId ==
    IF env.stringSession = "" THEN <<"Telegram session is not set up">>
    ELSE IF ~env.firestore THEN <<"Firebase Admin is not set up">>
    ELSE <<>>

\* lines 99-122: the checks made before the try
PrecheckError ==
    IF env.stringSession = "" THEN <<"Telegram session is not set up">>
    ELSE IF env.SYNX_CHAT_ID = "" THEN <<"SYNX_CHAT_ID is not configured on the server">>
    ELSE IF ~env.firestore THEN <<"Firebase Admin is not set up">>
    ELSE <<>>

Precheck ==
    /\ pc = "start"
    /\ IF PrecheckError # <<>>
       THEN /\ pc' = "returned"
            /\ run' = [run EXCEPT !.result = Failure(PrecheckError)]
       ELSE /\ pc' = "getChannel"
            /\ UNCHANGED run
    /\ UNCHANGED <<env, staging, log>>

\* lines 127-165: read the channel, resolve the folder
DocStoreErrors == { <<"firestore unavailable">> }

ChannelGet ==
    /\ pc = "getChannel"
    /\ \/ \E e \in DocStoreErrors :
            /\ pc' = "catch"
            /\ run' = [run EXCEPT !.err = e]
            /\ log' = Append(log, [op |-> "channelGet", ok |-> FALSE])
            /\ UNCHANGED env
       \/ /\ pc' = "returned"
          /\ run' = [run EXCEPT !.result = Failure(<<"channel not found">>)]
          /\ log' = Append(log, [op |-> "channelGet", ok |-> TRUE])
          /\ UNCHANGED env
       \/ \E f \in FolderIds :
            /\ env' = [env EXCEPT !.channelFolder = f]
            /\ log' = Append(log, [op |-> "channelGet", ok |-> TRUE])
            /\ IF FinalFolderId(f, env.defaultFolder) = <<>>
               THEN /\ pc' = "returned"
                    /\ run' = [run EXCEPT !.result =
                                  Failure(<<"no folder to upload to">>)]
               ELSE /\ pc' = "connect"
                    /\ UNCHANGED run
    /\ UNCHANGED staging

\* line 168: createTelegramClientFromStringSession
Connect ==
    /\ pc = "connect"
    /\ \/ /\ pc' = "dl_ensure"
          /\ log' = Append(log, [op |-> "connect", ok |-> TRUE])
          /\ UNCHANGED run
       \/ \E e \in TransportErrors :
            /\ pc' = "catch"
            /\ run' = [run EXCEPT !.err = e]
            /\ log' = Append(log, [op |-> "connect", ok |-> FALSE])
    /\ UNCHANGED <<env, staging>>

\* a throw inside the inner try: the finally runs, then the outer catch
Throw(msg) == [kind |-> "throw", msg |-> msg]

\* ensureTmpDir (line 354), outside the downloader's own try
FsErrors == { <<"ENOSPC">> }

\* an orchestrator that goes on to the upload when the download has raised
AfterDownloadThrow_goesOn == "tokens"

\* lines 185-191: the await of the downloader is inside the inner try and has
\* no catch of its own: a rejection runs the finally and skips the upload
AfterDownloadThrow == "finally"

EnsureTmpDir ==
    /\ pc = "dl_ensure"
    /\ \/ /\ pc' = "dl_list"
          /\ UNCHANGED run
       \/ \E e \in FsErrors :
            /\ pc' = AfterDownloadThrow
            /\ run' = [run EXCEPT !.pending = Throw(e)]
    /\ UNCHANGED <<env, staging, log>>

\* the message the downloader picks (lines 360-503), or the error it raises;
\* messageId 0 stands for no messageId
SelectVideoMessage(chat, messageId) ==
    IF messageId # 0
    THEN LET messages == MessagesById(chat, messageId)
         IN  IF Len(messages) = 0
             THEN [ok |-> FALSE, msg |-> ListCatch(MessageNotFoundError(messageId))]
             ELSE [ok |-> TRUE, message |-> messages[1]]
    ELSE LET videoMessages == VideoMessages(RecentWindow(chat))
         IN  IF Len(videoMessages) = 0
             THEN [ok |-> FALSE, msg |-> NoVideoFoundError]
             ELSE [ok |-> TRUE, message |-> videoMessages[1]]

\* what getMessages is asked for
ListRequest(messageId) ==
    IF messageId # 0
    THEN [op |-> "getMessages", ids |-> <<messageId>>, limit |-> 0]
    ELSE [op |-> "getMessages", ids |-> <<>>, limit |-> ListLimit]

\* the request and how the round trip ended: "answered", "threw", "timeout"
ListEvent(messageId, outcome) ==
    [op |-> "getMessages", ids |-> ListRequest(messageId).ids,
     limit |-> ListRequest(messageId).limit, outcome |-> outcome]

\* a round trip awaited alone: with no answer the await never ends
RaceNoAnswer_noTimer(timeoutError) == [hangs |-> TRUE, error |-> timeoutError]

\* Promise.race([call, timer]) (lines 367-374, 402-409, 554-559) when the
\* transport does not answer: the timer rejects with its error
RaceNoAnswer(timeoutError) == [hangs |-> FALSE, error |-> timeoutError]

ListMessages ==
    /\ pc = "dl_list"
    /\ LET messageId == env.options.telegramMessageId
       IN  \/ \E e \in TransportErrors :
                /\ log' = Append(log, ListEvent(messageId, "threw"))
                /\ pc' = AfterDownloadThrow
                /\ run' = [run EXCEPT !.late = @ \cup {"listTimer"},
                                  !.pending =
                              Throw(DownloadCatch(ListCatch(e), messageId))]
                /\ UNCHANGED env
           \/ /\ log' = Append(log, ListEvent(messageId, "timeout"))
              /\ IF RaceNoAnswer(ListTimeoutError).hangs
                 THEN /\ pc' = "hung"
                      /\ run' = [run EXCEPT !.late = @ \cup {"listAnswer"},
                                  !.hungAt = pc]
                 ELSE /\ pc' = AfterDownloadThrow
                      /\ run' = [run EXCEPT !.late = @ \cup {"listAnswer"},
                                  !.pending =
                             Throw(DownloadCatch(
                                ListCatch(RaceNoAnswer(ListTimeoutError).error),
                                messageId))]
              /\ UNCHANGED env
           \/ \E chat \in Chats :
                   LET sel == SelectVideoMessage(chat, messageId)
                   IN  /\ log' = Append(log, ListEvent(messageId, "answered"))
                       /\ env' = [env EXCEPT !.chat = chat]
                       /\ IF sel.ok
                          THEN /\ pc' = "dl_fetch"
                               /\ run' = [run EXCEPT !.late = @ \cup {"listTimer"},
                                  !.videoMessage = sel.message]
                          ELSE /\ pc' = AfterDownloadThrow
                               /\ run' = [run EXCEPT !.late = @ \cup {"listTimer"},
                                  !.pending =
                                             Throw(DownloadCatch(sel.msg, messageId))]
    /\ UNCHANGED staging

\* the call of downloadMedia and the length of the buffer it gave (-1: it
\* threw, -2: it had not answered when the timer fired)
FetchEvent(id, bytes) == [op |-> "downloadMedia", id |-> id, bytes |-> bytes]

\* lines 549-586: downloadMedia raced against the 5 minute timer
FetchMedia ==
    /\ pc = "dl_fetch"
    /\ LET messageId == env.options.telegramMessageId
       IN  \/ \E e \in TransportErrors :
                /\ log' = Append(log, FetchEvent(run.videoMessage.id, -1))
                /\ pc' = AfterDownloadThrow
                /\ run' = [run EXCEPT !.late = @ \cup {"fetchTimer"},
                                  !.pending =
                              Throw(DownloadCatch(FetchCatch(e), messageId))]
           \/ /\ log' = Append(log, FetchEvent(run.videoMessage.id, -2))
              /\ IF RaceNoAnswer(FetchTimeoutError).hangs
                 THEN /\ pc' = "hung"
                      /\ run' = [run EXCEPT !.late = @ \cup {"fetchAnswer"},
                                  !.hungAt = pc]
                 ELSE /\ pc' = AfterDownloadThrow
                      /\ run' = [run EXCEPT !.late = @ \cup {"fetchAnswer"},
                                  !.pending =
                             Throw(DownloadCatch(
                                FetchCatch(RaceNoAnswer(FetchTimeoutError).error),
                                messageId))]
           \/ \E size \in BufferSizes(run.videoMessage) :
                /\ log' = Append(log, FetchEvent(run.videoMessage.id, size))
                /\ IF size = 0
                   THEN /\ pc' = AfterDownloadThrow
                        /\ run' = [run EXCEPT !.late = @ \cup {"fetchTimer"},
                                  !.pending =
                                      Throw(DownloadCatch(EmptyFileError, messageId))]
                   ELSE /\ pc' = "dl_write"
                        /\ run' = [run EXCEPT !.late = @ \cup {"fetchTimer"},
                                  !.bufferSize = size]
    /\ UNCHANGED <<env, staging>>

\* line 594: fs.writeFile; a failed write may have created the file already
WriteFile ==
    /\ pc = "dl_write"
    /\ LET messageId == env.options.telegramMessageId
       IN  \/ /\ staging' = staging \cup {TempPath}
              /\ pc' = "dl_stat"
              /\ UNCHANGED run
           \/ \E e \in FsErrors, created \in BOOLEAN :
                /\ staging' = IF created THEN staging \cup {TempPath} ELSE staging
                /\ pc' = AfterDownloadThrow
                /\ run' = [run EXCEPT !.pending = Throw(DownloadCatch(e, messageId))]
    /\ UNCHANGED <<env, log>>

\* fs.stat: the size of the file written from a buffer of that length; a
\* file found empty is what the check of line 598 is there for
StatSizes(bufferSize) == {bufferSize, 0}

\* size checks that let an empty file through
SizeCheckError_noEmpty(size) ==
    IF size > MAX_FILE_SIZE THEN FileTooLargeError ELSE <<>>

\* size checks that refuse a file of exactly the maximum size
SizeCheckError_inclusive(size) ==
    IF size = 0 THEN EmptyFileError
    ELSE IF size >= MAX_FILE_SIZE THEN FileTooLargeError
    ELSE <<>>

\* lines 597-611: what the size checks do with a file of that size
SizeCheckError(size) ==
    IF size = 0 THEN EmptyFileError
    ELSE IF size > MAX_FILE_SIZE THEN FileTooLargeError
    ELSE <<>>

\* lines 597-632: fs.stat, the size checks, the return to the orchestrator
\* (line 191: tempFilePath = downloadResult.tempPath)
StatFile ==
    /\ pc = "dl_stat"
    /\ LET messageId == env.options.telegramMessageId
       IN  \/ \E e \in FsErrors :
                /\ pc' = AfterDownloadThrow
                /\ run' = [run EXCEPT !.pending = Throw(DownloadCatch(e, messageId))]
                /\ UNCHANGED staging
           \/ \E size \in StatSizes(run.bufferSize) :
                IF SizeCheckError(size) # <<>>
                THEN /\ staging' = staging \ {TempPath}
                     /\ pc' = AfterDownloadThrow
                     /\ run' = [run EXCEPT !.statSize = size,
                                           !.pending =
                                   Throw(DownloadCatch(SizeCheckError(size),
                                                       messageId))]
                ELSE /\ pc' = "tokens"
                     /\ run' = [run EXCEPT !.statSize = size,
                                           !.tempFilePath = TempPath]
                     /\ UNCHANGED staging
    /\ UNCHANGED <<env, log>>

\* getUserOAuthTokens: what the credential store may hold for the user
NoTokens == [present |-> FALSE]
UserTokens ==
    {NoTokens} \cup
    [present : {TRUE}, googleDriveAccessToken : {"", "tokOld"},
     googleDriveTokenExpiry : {0, 999, 2000}, googleDriveRefreshToken : {"", "ref"}]

CredentialErrors == { <<"credential store down">> }
RefreshErrors == { <<"invalid_grant">> }
OAuthUploadErrors == { <<"GOOGLE_DRIVE_OAUTH_INVALID">> }
ServiceUploadErrors == { <<"service account has no quota">> }

\* lines 235-238
IsExpired(tokens) ==
    IF tokens.googleDriveTokenExpiry # 0
    THEN tokens.googleDriveTokenExpiry < now
    ELSE FALSE

\* a catch that gives up without trying the service credential
AfterDelegatedThrow_skipsService == "cleanup"

\* lines 284-292: whatever the try of lines 230-283 raises is caught, and the
\* catch calls uploadFileToDrive
AfterDelegatedThrow == "saFallback"

\* lines 231-243 and 274-283: the credential store answers
GetTokens ==
    /\ pc = "tokens"
    /\ \/ \E e \in CredentialErrors :
            /\ log' = Append(log, [op |-> "getUserOAuthTokens", ok |-> FALSE])
            /\ pc' = AfterDelegatedThrow
            /\ run' = [run EXCEPT !.oauthError = e]
       \/ \E t \in UserTokens :
            /\ log' = Append(log, [op |-> "getUserOAuthTokens", ok |-> TRUE])
            /\ IF t.present /\ t.googleDriveAccessToken # ""
               THEN /\ run' = [run EXCEPT !.tokens = t,
                                          !.accessToken = t.googleDriveAccessToken]
                    /\ pc' = IF IsExpired(t) /\ t.googleDriveRefreshToken # ""
                             THEN "refresh" ELSE "oauthUpload"
               ELSE /\ run' = [run EXCEPT !.tokens = t]
                    /\ pc' = "saDirect"
    /\ UNCHANGED <<env, staging>>

\* what oauth2Client.refreshAccessToken may answer
RefreshedCredentials ==
    [present : {TRUE}, access_token : {"tokNew"}, expiry_date : {0, 5000}]

\* a refresh whose result is dropped: the upload keeps the expired token
RefreshedAccessToken_keepsOld(credentials, oldToken) == oldToken

\* line 253: accessToken = credentials.access_token
RefreshedAccessToken(credentials, oldToken) == credentials.access_token

\* line 259: credentials.expiry_date || Date.now() + 3600000
RefreshedExpiry(credentials) ==
    IF credentials.expiry_date # 0 THEN credentials.expiry_date
    ELSE now + TokenLifetimeMs

\* lines 243-253
Refresh ==
    /\ pc = "refresh"
    /\ \/ \E e \in RefreshErrors :
            /\ pc' = AfterDelegatedThrow
            /\ run' = [run EXCEPT !.oauthError = e]
            /\ log' = Append(log, [op |-> "refreshAccessToken", ok |-> FALSE])
       \/ \E c \in RefreshedCredentials :
            /\ pc' = "persistToken"
            /\ run' = [run EXCEPT !.credentials = c,
                                  !.accessToken =
                                     RefreshedAccessToken(c, run.accessToken)]
            /\ log' = Append(log, [op |-> "refreshAccessToken", ok |-> TRUE])
    /\ UNCHANGED <<env, staging>>

\* lines 256-260: updateUserAccessToken
PersistToken ==
    /\ pc = "persistToken"
    /\ \E e \in CredentialErrors \cup {<<>>} :
         /\ log' = Append(log, [op |-> "updateUserAccessToken", ok |-> e = <<>>,
                                token |-> run.accessToken,
                                expiry |-> RefreshedExpiry(run.credentials)])
         /\ IF e = <<>>
            THEN /\ pc' = "oauthUpload"
                 /\ UNCHANGED run
            ELSE /\ pc' = AfterDelegatedThrow
                 /\ run' = [run EXCEPT !.oauthError = e]
    /\ UNCHANGED <<env, staging>>

\* the id the upload answers with: driveResult.fileId
UploadedFileId(op) == IF op = "uploadOAuth" THEN "driveO" ELSE "driveS"

UploadEvent(op, error, token) ==
    [op |-> op, ok |-> error = <<>>, error |-> error, token |-> token,
     fileId |-> IF error = <<>> THEN UploadedFileId(op) ELSE "",
     fileExists |-> TempPath \in staging]

\* a catch that removes the staged file when the delegated upload has failed
StagedAfterOAuthFailure_unlinks(files, tempPath) == files \ {tempPath}

\* lines 284-290: the catch of the delegated path logs the error and leaves
\* the staged file and tempFilePath as they are
StagedAfterOAuthFailure(files, tempPath) == files

\* lines 267-273: uploadFileToDriveWithOAuth with the delegated token
OAuthUpload ==
    /\ pc = "oauthUpload"
    /\ \/ /\ pc' = "cleanup"
          /\ run' = [run EXCEPT !.driveResult = [fileId |-> UploadedFileId("uploadOAuth")]]
          /\ log' = Append(log, UploadEvent("uploadOAuth", <<>>, run.accessToken))
          /\ UNCHANGED staging
       \/ \E e \in OAuthUploadErrors :
            /\ pc' = AfterDelegatedThrow
            /\ run' = [run EXCEPT !.oauthError = e]
            /\ log' = Append(log, UploadEvent("uploadOAuth", e, run.accessToken))
            /\ staging' = StagedAfterOAuthFailure(staging, run.tempFilePath)
    /\ UNCHANGED env

\* lines 274-283: no delegated token, uploadFileToDrive inside the same try
ServiceUploadNoToken ==
    /\ pc = "saDirect"
    /\ \/ /\ pc' = "cleanup"
          /\ run' = [run EXCEPT !.driveResult =
                                    [fileId |-> UploadedFileId("uploadService")]]
          /\ log' = Append(log, UploadEvent("uploadService", <<>>, ""))
       \/ \E e \in ServiceUploadErrors :
            /\ pc' = AfterDelegatedThrow
            /\ run' = [run EXCEPT !.oauthError = e]
            /\ log' = Append(log, UploadEvent("uploadService", e, ""))
    /\ UNCHANGED <<env, staging>>

\* an error that names the service-credential failure only
BothFailedError_serviceOnly(oauthMsg, serviceMsg) ==
    <<"GOOGLE_DRIVE_UPLOAD_FAILED", ": Service Account error: ">> \o serviceMsg

\* lines 300-305: the error raised when the fallback fails too
BothFailedError(oauthMsg, serviceMsg) ==
    <<"GOOGLE_DRIVE_UPLOAD_FAILED", ": OAuth error: ">> \o oauthMsg
        \o <<". Service Account error: ">> \o serviceMsg
        \o <<". Please authorize through Google OAuth">>

\* lines 284-307: the catch of the delegated path tries the service credential
ServiceUploadFallback ==
    /\ pc = "saFallback"
    /\ \/ /\ pc' = "cleanup"
          /\ run' = [run EXCEPT !.driveResult =
                                    [fileId |-> UploadedFileId("uploadService")]]
          /\ log' = Append(log, UploadEvent("uploadService", <<>>, ""))
       \/ \E e \in ServiceUploadErrors :
            /\ pc' = "finally"
            /\ run' = [run EXCEPT !.pending = Throw(BothFailedError(run.oauthError, e))]
            /\ log' = Append(log, UploadEvent("uploadService", e, ""))
    /\ UNCHANGED <<env, staging>>

\* cleanupTempFile (lines 663-674): unlink, any error swallowed
CleanupTempFile(files, tempPath) == files \ {tempPath}

\* lines 319-320
Cleanup ==
    /\ pc = "cleanup"
    /\ staging' = CleanupTempFile(staging, run.tempFilePath)
    /\ run' = [run EXCEPT !.tempFilePath = ""]
    /\ log' = Append(log, [op |-> "cleanupTempFile"])
    /\ pc' = "recAdd"
    /\ UNCHANGED env

\* lines 353-359: the success value
Success ==
    [kind |-> "return",
     result |-> [success |-> TRUE, driveFileId |-> run.driveResult.fileId,
                 fileName |-> DriveFileName]]

\* a record written with an id that no upload returned
RecordedFileId_stale(driveResult) == "drivePrev"

\* lines 325 and 336: the asset id written to the document store
RecordedFileId(driveResult) == driveResult.fileId

\* a catch that lets the document store's error leave the run
AfterPersistFailure_rethrows == Throw(<<"firestore unavailable">>)

\* lines 340-359: the error of the add or the update is logged and the run
\* goes on to its return
AfterPersistFailure == Success

\* an add and an update in two try blocks: the update is made either way
AfterAppendFailure_goesOn == "recUpdate"

\* lines 323-345: the add and the update are in one try; an add that throws
\* goes to the catch of line 340, past the update, and on to the return
AfterAppendFailure == "finally"

\* lines 324-332: channelRef.collection("generatedVideos").add; a failure is
\* caught at line 340 and the update is skipped
AppendRecord ==
    /\ pc = "recAdd"
    /\ \E ok \in BOOLEAN :
         /\ log' = Append(log, [op |-> "addRecord", ok |-> ok,
                                driveFileId |-> RecordedFileId(run.driveResult)])
         /\ IF ok
            THEN /\ pc' = "recUpdate"
                 /\ UNCHANGED run
            ELSE /\ pc' = AfterAppendFailure
                 /\ run' = [run EXCEPT !.pending = AfterPersistFailure]
    /\ UNCHANGED <<env, staging>>

\* lines 335-339: channelRef.update, then the return of lines 353-359
UpdatePointer ==
    /\ pc = "recUpdate"
    /\ \E ok \in BOOLEAN :
         /\ log' = Append(log, [op |-> "updateChannel", ok |-> ok,
                                driveFileId |-> RecordedFileId(run.driveResult)])
         /\ run' = [run EXCEPT !.pending =
                       IF ok THEN Success ELSE AfterPersistFailure]
    /\ pc' = "finally"
    /\ UNCHANGED <<env, staging>>

\* a disconnect placed after the return instead of in a finally
FinallyLog_onReturnOnly(lg, ok) ==
    IF run.pending.kind = "return"
    THEN Append(lg, [op |-> "disconnect", ok |-> ok]) ELSE lg

\* lines 360-369: the finally of the inner try
FinallyLog(lg, ok) == Append(lg, [op |-> "disconnect", ok |-> ok])

\* a function without the outer catch: what the inner try raised leaves it
FinallyExit_noCatch(pending) ==
    IF pending.kind = "return" THEN "returned" ELSE "rejected"

\* lines 360-370: after the finally a return completes, and what was raised
\* is taken by the outer catch
FinallyExit(pending) ==
    IF pending.kind = "return" THEN "returned" ELSE "catch"

Disconnect ==
    /\ pc = "finally"
    /\ \E ok \in BOOLEAN : log' = FinallyLog(log, ok)
    /\ pc' = FinallyExit(run.pending)
    /\ IF run.pending.kind = "return"
       THEN run' = [run EXCEPT !.result = run.pending.result]
       ELSE run' = [run EXCEPT !.err = run.pending.msg]
    /\ UNCHANGED <<env, staging>>

\* lines 370-398: the outer catch
CatchAll ==
    /\ pc = "catch"
    /\ IF run.tempFilePath # ""
       THEN /\ staging' = CleanupTempFile(staging, run.tempFilePath)
            /\ log' = Append(log, [op |-> "cleanupTempFile"])
       ELSE UNCHANGED <<staging, log>>
    /\ run' = [run EXCEPT !.result = Failure(run.err)]
    /\ pc' = "returned"
    /\ UNCHANGED env

\* the awaits that are not raced against a timer: the document store (lines
\* 134, 324, 335), the session (168, 364), the credential store (231, 256),
\* the token refresh (252) and the uploads (267, 277, 292)
UnboundedAwaits ==
    {"getChannel", "connect", "tokens", "refresh", "persistToken",
     "oauthUpload", "saDirect", "saFallback", "recAdd", "recUpdate", "finally"}

\* the collaborator awaited there never answers: the run stays at the await
NeverAnswers ==
    /\ pc \in UnboundedAwaits
    /\ pc' = "hung"
    /\ run' = [run EXCEPT !.hungAt = pc]
    /\ UNCHANGED <<env, staging, log>>

\* a downloadMedia that writes the media to the staging path itself
LateAnswerFiles_toFile(files, e, tempPath) ==
    IF e = "fetchAnswer" THEN files \cup {tempPath} ELSE files

\* lines 367-374, 402-409, 554-559: getMessages gives a list and
\* downloadMedia(videoMessage, {}) a Buffer to a race that has settled; the
\* file is written by the writeFile of line 594 only, after a race that the
\* call won
LateAnswerFiles(files, e, tempPath) == files

\* The loser of a Promise.race happens after the race has settled: the
\* timer rejects, or the call answers, a promise that is settled already
LateEvent ==
    /\ \E e \in run.late :
          /\ run' = [run EXCEPT !.late = @ \ {e}]
          /\ staging' = LateAnswerFiles(staging, e, TempPath)
    /\ UNCHANGED <<pc, env, log>>

NextRun ==
    \/ LateEvent /\ UNCHANGED schedVars
    \/ Precheck /\ UNCHANGED schedVars
    \/ ChannelGet /\ UNCHANGED schedVars
    \/ Connect /\ UNCHANGED schedVars
    \/ EnsureTmpDir /\ UNCHANGED schedVars
    \/ ListMessages /\ UNCHANGED schedVars
    \/ FetchMedia /\ UNCHANGED schedVars
    \/ WriteFile /\ UNCHANGED schedVars
    \/ StatFile /\ UNCHANGED schedVars
    \/ GetTokens /\ UNCHANGED schedVars
    \/ Refresh /\ UNCHANGED schedVars
    \/ PersistToken /\ UNCHANGED schedVars
    \/ OAuthUpload /\ UNCHANGED schedVars
    \/ ServiceUploadNoToken /\ UNCHANGED schedVars
    \/ ServiceUploadFallback /\ UNCHANGED schedVars
    \/ Cleanup /\ UNCHANGED schedVars
    \/ AppendRecord /\ UNCHANGED schedVars
    \/ UpdatePointer /\ UNCHANGED schedVars
    \/ Disconnect /\ UNCHANGED schedVars
    \/ CatchAll /\ UNCHANGED schedVars
    \/ NeverAnswers /\ UNCHANGED schedVars

SpecRun == InitRun /\ [][NextRun]_vars

\* the run is one async function: the event loop resumes it whenever the
\* collaborator it awaits has settled
SpecRunFair == InitRun /\ [][NextRun]_vars /\ WF_vars(NextRun)

\* the run is at that await, whether or not it will be answered
Awaiting(p) == pc = p \/ (pc = "hung" /\ run.hungAt = p)

(***************************************************************************)
(* Upload gateway: uploadFileToDriveWithOAuth (googleDriveOAuth.ts)        *)
(* SpecUpload is one call of the function; pc, env, run, staging and log   *)
(* hold the call's position, parameters, locals, the directory and the     *)
(* requests made.                                                          *)
(***************************************************************************)
FolderMimeType == "application/vnd.google-apps.folder"

\* an error of the Drive API: its code and its message
ApiError(code, msg) == [code |-> code, message |-> msg]

\* the errors the function composes itself; none of them has a code
FileNotFoundError(filePath) == <<"FILE_NOT_FOUND", ": file not found: ", filePath>>
FolderNotFoundError(folderId) ==
    <<"GOOGLE_DRIVE_FOLDER_NOT_FOUND", ": folder not found (ID: ", folderId, ")">>
NotAFolderError ==
    <<"GOOGLE_DRIVE_NOT_A_FOLDER", ": the id is not a Google Drive folder">>
FolderPermissionError ==
    <<"GOOGLE_DRIVE_PERMISSION_DENIED", ": no access to the folder">>
OAuthInvalidError ==
    <<"GOOGLE_DRIVE_OAUTH_INVALID", ": the OAuth token is invalid or expired">>
UploadPermissionError ==
    <<"GOOGLE_DRIVE_PERMISSION_DENIED", ": no right to upload to this folder">>

\* what drive.files.get and drive.files.create may reject with
DriveApiErrors ==
    { ApiError(401, <<"Invalid Credentials">>),
      ApiError(403, <<"Forbidden">>),
      ApiError(404, <<"File not found: ">>),
      ApiError(500, <<"Backend Error">>) }

\* the mimeType drive.files.get may answer with
DriveMimeTypes == {FolderMimeType, "video/mp4"}

\* lines 56-67: the catch around the validation of the folder
ValidationCatch(error, folderId) ==
    IF error.code = 404 THEN FolderNotFoundError(folderId)
    ELSE IF error.code = 403 THEN FolderPermissionError
    ELSE error.message

\* lines 114-134: the catch around drive.files.create
CreateCatch(error) ==
    IF error.code = 401 THEN OAuthInvalidError
    ELSE IF error.code = 403 THEN UploadPermissionError
    ELSE error.message

\* an uploader that removes the file it was given once it is done with it
UploaderFiles_unlinks(files, filePath) == files \ {filePath}

\* lines 23-136: the function reads the file (fs.promises.access, stat,
\* createReadStream) and never writes or unlinks it
UploaderFiles(files, filePath) == files

UploadParams ==
    [filePath : {TempPath}, fileName : {DriveFileName, "clip.mp4"},
     parentFolderId : {"f", "g"}, accessToken : {"tokOld", "tokNew"}]

InitUpload ==
    /\ now \in RunTimes
    /\ activeTasks = <<>>
    /\ timers = <<>>
    /\ cancelledArmed = {}
    /\ cancelledFired = {}
    /\ pc = "up_access"
    /\ staging \in {{}, {TempPath}}
    /\ \E params \in UploadParams :
          env = [params |-> params, filesAtCall |-> staging]
    /\ run = [error |-> <<>>, fileId |-> ""]
    /\ log = <<>>

UploadThrows(msg) ==
    /\ pc' = "up_threw"
    /\ run' = [run EXCEPT !.error = msg]
    /\ staging' = UploaderFiles(staging, env.params.filePath)
    /\ UNCHANGED env

\* lines 33-37: fs.promises.access(filePath)
UploadAccess ==
    /\ pc = "up_access"
    /\ log' = Append(log, [op |-> "fs.access", path |-> env.params.filePath])
    /\ IF env.params.filePath \in staging
       THEN /\ pc' = "up_folder"
            /\ UNCHANGED <<env, run, staging>>
       ELSE UploadThrows(FileNotFoundError(env.params.filePath))

\* lines 42-68: drive.files.get on the folder id
UploadValidateFolder ==
    /\ pc = "up_folder"
    /\ LET folderId == env.params.parentFolderId
       IN  \/ \E e \in DriveApiErrors :
                /\ log' = Append(log, [op |-> "files.get", fileId |-> folderId,
                                       code |-> e.code, mimeType |-> ""])
                /\ UploadThrows(ValidationCatch(e, folderId))
           \/ \E mt \in DriveMimeTypes :
                /\ log' = Append(log, [op |-> "files.get", fileId |-> folderId,
                                       code |-> 200, mimeType |-> mt])
                /\ IF mt # FolderMimeType
                   THEN UploadThrows(ValidationCatch(ApiError(0, NotAFolderError),
                                                     folderId))
                   ELSE /\ pc' = "up_stat"
                        /\ UNCHANGED <<env, run, staging>>

\* line 70: fs.promises.stat(filePath)
UploadStat ==
    /\ pc = "up_stat"
    /\ log' = Append(log, [op |-> "fs.stat", path |-> env.params.filePath])
    /\ \/ /\ pc' = "up_create"
          /\ UNCHANGED <<env, run, staging>>
       \/ \E e \in FsErrors : UploadThrows(e)

\* lines 83-135: createReadStream and drive.files.create
UploadCreate ==
    /\ pc = "up_create"
    /\ LET request == [op |-> "files.create", name |-> env.params.fileName,
                       parent |-> env.params.parentFolderId,
                       token |-> env.params.accessToken]
       IN  /\ log' = Append(log, request)
           /\ \/ /\ pc' = "up_returned"
                 /\ run' = [run EXCEPT !.fileId = UploadedFileId("uploadOAuth")]
                 /\ staging' = UploaderFiles(staging, env.params.filePath)
                 /\ UNCHANGED env
              \/ \E e \in DriveApiErrors : UploadThrows(CreateCatch(e))

NextUpload ==
    \/ UploadAccess /\ UNCHANGED schedVars
    \/ UploadValidateFolder /\ UNCHANGED schedVars
    \/ UploadStat /\ UNCHANGED schedVars
    \/ UploadCreate /\ UNCHANGED schedVars

SpecUpload == InitUpload /\ [][NextUpload]_vars

(***************************************************************************)
(* Prompt relay: sendPromptFromUserToSyntx (sendPromptFromUserToSyntx.ts)  *)
(* SpecSend is one call of the function.                                   *)
(***************************************************************************)
\* an exception: its class and its message
Exception(class, msg) == [class |-> class, message |-> msg]

NoException == Exception("", <<>>)

\* lines 13-15 and 18-20: the errors thrown before the try
ChatIdNotConfigured == Exception("Error", <<"SYNX_CHAT_ID is not configured">>)
SessionNotInitialized == Exception("Error", <<"TELEGRAM_SESSION_NOT_INITIALIZED">>)

\* lines 34-36
SessionExpired ==
    Exception("TelegramSessionExpiredError",
              <<"TELEGRAM_SESSION_EXPIRED_NEED_RELOGIN">>)

\* what createTelegramClientFromStringSession and client.sendMessage may
\* reject with
SendTransportErrors ==
    { Exception("RPCError", <<"401: ", "AUTH_KEY_UNREGISTERED", " (caused by X)">>),
      Exception("RPCError", <<"401: ", "SESSION_REVOKED">>),
      Exception("RPCError", <<"401: ", "USER_DEACTIVATED">>),
      Exception("RPCError", <<"400: ", "PASSWORD_HASH_INVALID">>),
      Exception("RPCError", <<"420: ", "FLOOD_WAIT">>),
      Exception("Error", <<"connection closed">>) }

\* a test that leaves SESSION_REVOKED out
IsAuthMessage_noRevoked(message) ==
    \/ Includes(message, "AUTH_KEY_UNREGISTERED")
    \/ Includes(message, "USER_DEACTIVATED")
    \/ Includes(message, "PASSWORD_HASH_INVALID")

\* lines 28-33
IsAuthMessage(message) ==
    \/ Includes(message, "AUTH_KEY_UNREGISTERED")
    \/ Includes(message, "SESSION_REVOKED")
    \/ Includes(message, "USER_DEACTIVATED")
    \/ Includes(message, "PASSWORD_HASH_INVALID")

\* lines 26-38: the catch around connect and send
SendCatch(err) == IF IsAuthMessage(err.message) THEN SessionExpired ELSE err

SendPrompts == {"p1", "p2"}

InitSend ==
    /\ now \in RunTimes
    /\ activeTasks = <<>>
    /\ timers = <<>>
    /\ cancelledArmed = {}
    /\ cancelledFired = {}
    /\ pc = "send_start"
    /\ staging = {}
    /\ \E chatId \in {"", "chat"}, session \in {"", "sess"}, prompt \in SendPrompts :
          env = [SYNX_CHAT_ID |-> chatId, stringSession |-> session,
                 prompt |-> prompt]
    /\ run = [client |-> FALSE, pending |-> NoException, thrown |-> NoException]
    /\ log = <<>>

\* lines 13-20
SendPrecheck ==
    /\ pc = "send_start"
    /\ IF env.SYNX_CHAT_ID = ""
       THEN /\ pc' = "send_threw"
            /\ run' = [run EXCEPT !.thrown = ChatIdNotConfigured]
            /\ UNCHANGED log
       ELSE /\ log' = Append(log, [op |-> "loadSessionString",
                                   error |-> NoException])
            /\ IF env.stringSession = ""
               THEN /\ pc' = "send_threw"
                    /\ run' = [run EXCEPT !.thrown = SessionNotInitialized]
               ELSE /\ pc' = "send_connect"
                    /\ UNCHANGED run
    /\ UNCHANGED <<env, staging>>

\* line 24 and the catch of lines 26-38
SendConnect ==
    /\ pc = "send_connect"
    /\ \/ /\ log' = Append(log, [op |-> "connect", error |-> NoException])
          /\ run' = [run EXCEPT !.client = TRUE]
          /\ pc' = "send_message"
       \/ \E err \in SendTransportErrors :
             /\ log' = Append(log, [op |-> "connect", error |-> err])
             /\ run' = [run EXCEPT !.pending = SendCatch(err)]
             /\ pc' = "send_finally"
    /\ UNCHANGED <<env, staging>>

\* line 25 and the catch of lines 26-38
SendMessage ==
    /\ pc = "send_message"
    /\ \/ /\ log' = Append(log, [op |-> "sendMessage", error |-> NoException])
          /\ UNCHANGED run
       \/ \E err \in SendTransportErrors :
             /\ log' = Append(log, [op |-> "sendMessage", error |-> err])
             /\ run' = [run EXCEPT !.pending = SendCatch(err)]
    /\ pc' = "send_finally"
    /\ UNCHANGED <<env, staging>>

\* lines 39-47: the finally; an error of disconnect is ignored
SendFinally ==
    /\ pc = "send_finally"
    /\ IF run.client
       THEN \E err \in {NoException} \cup SendTransportErrors :
               log' = Append(log, [op |-> "disconnect", error |-> err])
       ELSE UNCHANGED log
    /\ IF run.pending = NoException
       THEN /\ pc' = "send_returned"
            /\ UNCHANGED run
       ELSE /\ pc' = "send_threw"
            /\ run' = [run EXCEPT !.thrown = run.pending]
    /\ UNCHANGED <<env, staging>>

NextSend ==
    \/ SendPrecheck /\ UNCHANGED schedVars
    \/ SendConnect /\ UNCHANGED schedVars
    \/ SendMessage /\ UNCHANGED schedVars
    \/ SendFinally /\ UNCHANGED schedVars

SpecSend == InitSend /\ [][NextSend]_vars

(***************************************************************************)
(* Scheduler claims                                                        *)
(***************************************************************************)
LiveEntries(p) ==
    {i \in 1..Len(activeTasks) : SamePair(activeTasks[i], p[1], p[2])}

ArmedTimers(p) ==
    {h \in 1..Len(timers) :
        SamePair(timers[h], p[1], p[2]) /\ timers[h].state = "armed"}

\* C1: after any sequence of schedule, cancel, cancelAll and timer events the
\* live-task table holds at most one task for each (channelId, scheduleId)
\* pair, and at most one timer is armed for that pair.
C1_AtMostOneLivePerPair ==
    \A p \in Pairs :
        /\ Cardinality(LiveEntries(p)) <= 1
        /\ Cardinality(ArmedTimers(p)) <= 1

\* C2: a scheduleAutoDownload call for a pair disarms every timer of that pair
\* that has not fired yet (the earlier task never runs the orchestrator), and
\* right after the call getActiveTasks holds exactly one entry for the pair,
\* carrying the due time of this call, whichever delay is the longer.
C2_SecondScheduleWins ==
    [][\A p \in Pairs, u \in UserIds, m \in MessageIds, d \in DelayMinutes :
          scheduleAutoDownload(p[1], p[2], u, m, d) =>
            /\ \A h \in ArmedTimers(p) :
                  timers'[h].state = "cleared" /\ timers'[h].invoked = 0
            /\ \E i \in 1..Len(getActiveTasks') :
                  /\ SamePair(getActiveTasks'[i], p[1], p[2])
                  /\ getActiveTasks'[i].runAt = now + d * MsPerMinute
                  /\ \A j \in 1..Len(getActiveTasks') :
                        SamePair(getActiveTasks'[j], p[1], p[2]) => j = i
      ]_vars

\* ids of tasks whose timer callback has started
FiredIds ==
    {timers[h].taskId : h \in {x \in 1..Len(timers) :
                                  timers[x].state \in {"running", "done"}}}

\* ids for which cancelScheduledTask has returned true
CancelledIds == {timers[h].taskId : h \in cancelledArmed \cup cancelledFired}

\* C3: cancelScheduledTask is idempotent: once cancelScheduledTask(id) has
\* returned true, or once the task with that id has fired, every later
\* cancelScheduledTask(id) returns false and leaves the table unchanged.
C3_CancelIdempotent ==
    [][\A id \in KnownTaskIds :
          (cancelScheduledTask(id) /\ id \in (CancelledIds \cup FiredIds)) =>
            (~cancelScheduledTask_ret(id) /\ activeTasks' = activeTasks)
      ]_vars

C5_NoStagedFileAfterReturn ==
    pc = "returned" => TempPath \notin staging

SessionOpened == \E i \in 1..Len(log) : log[i].op = "connect" /\ log[i].ok

Disconnects == {i \in 1..Len(log) : log[i].op = "disconnect"}

\* C6: once the chat-transport session has been opened, disconnect is called
\* on it before the call returns, on every exit path.
C6_SessionAlwaysClosed ==
    (pc = "returned" /\ SessionOpened) =>
        /\ Cardinality(Disconnects) = 1
        /\ \A i \in 1..Len(log), j \in Disconnects : log[i].op = "connect" => i < j

\* a run that opened the session and returned a failure
C6_Witness ==
    /\ pc = "returned"
    /\ SessionOpened
    /\ ~run.result.success
    /\ Disconnects # {}

TransportOps == {"connect", "getMessages", "downloadMedia", "disconnect"}

IsBlank(str) == \A i \in 1..Len(str) : str[i] = " "

\* the channel has been read and neither it nor the process names a folder
NoFolderSet ==
    /\ \E i \in 1..Len(log) : log[i].op = "channelGet" /\ log[i].ok
    /\ IsBlank(env.channelFolder)
    /\ IsBlank(env.defaultFolder)

\* C7: if the session credential is missing, the destination chat id is
\* missing, or neither the channel's folder id nor the default folder is set,
\* the run returns a failure without ever touching the chat transport.
C7_PrecheckNoTransport ==
    (env.stringSession = "" \/ env.SYNX_CHAT_ID = "" \/ NoFolderSet) =>
        /\ pc \in {"start", "getChannel", "returned"}
        /\ \A i \in 1..Len(log) : log[i].op \notin TransportOps
        /\ pc = "returned" => ~run.result.success

\* scenario A: the channel was read, no folder anywhere, failure returned
C7_Witness ==
    /\ pc = "returned"
    /\ env.stringSession # ""
    /\ env.SYNX_CHAT_ID # ""
    /\ NoFolderSet
    /\ run.result = Failure(<<"no folder to upload to">>)

\* msg occurs in whole as consecutive parts of text
IsInfix(msg, text) ==
    \E k \in 0..(Len(text) - Len(msg)) :
        \A i \in 1..Len(msg) : text[k + i] = msg[i]

\* C8: if the upload with the delegated token throws, the service-credential
\* upload is attempted before the run fails; if that throws too, the run
\* returns success=false with an error that contains both messages.
C8_UploadFallback ==
    \A i \in 1..Len(log) :
        (log[i].op = "uploadOAuth" /\ ~log[i].ok /\ ~Awaiting("saFallback")) =>
            /\ Len(log) > i
            /\ log[i + 1].op = "uploadService"
            /\ (pc = "returned" /\ ~log[i + 1].ok) =>
                  /\ ~run.result.success
                  /\ IsInfix(log[i].error, run.result.error)
                  /\ IsInfix(log[i + 1].error, run.result.error)
            /\ (pc = "returned" /\ log[i + 1].ok) => run.result.success

\* both uploads threw and the run has returned
C8_Witness ==
    /\ pc = "returned"
    /\ \E i \in 1..Len(log) : log[i].op = "uploadOAuth" /\ ~log[i].ok
    /\ \E i \in 1..Len(log) : log[i].op = "uploadService" /\ ~log[i].ok

\* the stored delegated token is expired and can be refreshed
ExpiredRefreshable ==
    /\ run.tokens.present
    /\ run.tokens.googleDriveAccessToken # ""
    /\ run.tokens.googleDriveTokenExpiry # 0
    /\ run.tokens.googleDriveTokenExpiry < now
    /\ run.tokens.googleDriveRefreshToken # ""

\* C9: when the delegated token is expired, a refresh token is present and the
\* refresh succeeds, the refreshed token and its expiry are persisted with
\* updateUserAccessToken before the delegated upload is attempted, and that
\* upload uses the refreshed token, never the expired one.
C9_RefreshedTokenUsed ==
    \A i \in 1..Len(log) :
        (log[i].op = "uploadOAuth" /\ ExpiredRefreshable) =>
            /\ run.credentials.present
            /\ log[i].token = run.credentials.access_token
            /\ log[i].token # run.tokens.googleDriveAccessToken
            /\ \E j \in 1..(i - 1) :
                  /\ log[j].op = "updateUserAccessToken"
                  /\ log[j].ok
                  /\ log[j].token = run.credentials.access_token
                  /\ log[j].expiry =
                        IF run.credentials.expiry_date # 0
                        THEN run.credentials.expiry_date
                        ELSE now + TokenLifetimeMs

\* scenario C: expired token refreshed, and the delegated upload made
C9_Witness ==
    /\ pc = "returned"
    /\ ExpiredRefreshable
    /\ run.result.success
    /\ \E i \in 1..Len(log) : log[i].op = "uploadOAuth" /\ log[i].ok

\* the qualifying videos of the listed window sent after the anchor
VideosAfterAnchor(chat, anchor) ==
    {k \in 1..Len(RecentWindow(chat)) :
        IsVideoMessage(chat[k]) /\ chat[k].id > anchor}

\* C10: when an anchor message id is given the downloader uses it as a recency
\* marker only: if the recent window (50 messages) holds exactly one
\* qualifying video sent after the anchor, that message, not the anchor
\* message, is the one downloaded.
C10_AnchorIsRecencyMarker ==
    \A i \in 1..Len(log) :
        (log[i].op = "downloadMedia" /\ env.options.telegramMessageId # 0) =>
            /\ \A k \in VideosAfterAnchor(env.chat, env.options.telegramMessageId) :
                  Cardinality(VideosAfterAnchor(env.chat,
                                  env.options.telegramMessageId)) = 1
                      => log[i].id = env.chat[k].id

\* the run has ended by raising or returning, and what it raised or returned
RunEnding == pc \in {"finally", "catch", "returned"} \/ Awaiting("finally")

RaisedWith(part) ==
    CASE Awaiting("finally") ->
            run.pending.kind = "throw" /\ Includes(run.pending.msg, part)
      [] pc = "catch" -> Includes(run.err, part)
      [] pc = "returned" ->
            ~run.result.success /\ Includes(run.result.error, part)
      [] OTHER -> FALSE

UploadOps == {"uploadOAuth", "uploadService"}

\* the downloader has returned to the orchestrator (line 191)
DownloadReturned ==
    \/ run.tempFilePath # ""
    \/ \E i \in 1..Len(log) : log[i].op = "cleanupTempFile"

C12_ResultShape ==
    pc = "returned" =>
        \/ /\ run.result.success
           /\ DOMAIN run.result = {"success", "driveFileId", "fileName"}
           /\ run.result.driveFileId # ""
        \/ /\ ~run.result.success
           /\ DOMAIN run.result = {"success", "error"}
           /\ run.result.error # <<>>

\* a failure returned after an asset id was at hand is impossible; the nearest
\* case: the download succeeded, every upload failed, a failure is returned
C12_Witness ==
    /\ pc = "returned"
    /\ ~run.result.success
    /\ DownloadReturned
    /\ \E i \in 1..Len(log) : log[i].op \in UploadOps

RecordWrites ==
    {i \in 1..Len(log) : log[i].op \in {"addRecord", "updateChannel"}}

\* C13: the result record is appended and the channel's last-video pointer
\* updated only after an upload of the same run has succeeded; a run that
\* returns success=false has written nothing to the document store; every
\* persisted asset id is the id a successful upload returned.
C13_PersistAfterUpload ==
    /\ \A i \in RecordWrites :
          \E j \in 1..(i - 1) :
              /\ log[j].op \in UploadOps
              /\ log[j].ok
              /\ log[j].fileId = log[i].driveFileId
              /\ \A k \in (j + 1)..(i - 1) : log[k].op \notin UploadOps
    /\ (pc = "returned" /\ ~run.result.success) => RecordWrites = {}

\* the record and the pointer were both written and the run has returned
C13_Witness ==
    /\ pc = "returned"
    /\ \E i \in 1..Len(log) : log[i].op = "addRecord" /\ log[i].ok
    /\ \E i \in 1..Len(log) : log[i].op = "updateChannel" /\ log[i].ok

FetchedEmpty ==
    \E i \in 1..Len(log) : log[i].op = "downloadMedia" /\ log[i].bytes = 0

\* C14: if the media fetch yields a payload of size 0, or the written file has
\* size 0, the download step fails with the empty-file kind and no file of
\* the run exists in the staging directory afterwards.
C14_EmptyFileFails ==
    (FetchedEmpty \/ run.statSize = 0) =>
        /\ RunEnding
        /\ RaisedWith("TELEGRAM_DOWNLOAD_FAILED")
        /\ ~DownloadReturned
        /\ TempPath \notin staging

\* a non-empty buffer was written, the file was found empty, the run returned
C14_Witness ==
    /\ pc = "returned"
    /\ run.statSize = 0
    /\ run.bufferSize > 0

\* C15: if the staged file is strictly larger than the maximum (100 MB) the
\* download step fails with the oversized kind and the file is removed before
\* the error is raised; a file of exactly the maximum size is accepted.
C15_OversizedFileFails ==
    /\ run.statSize > MAX_FILE_SIZE =>
          /\ RunEnding
          /\ RaisedWith("FILE_TOO_LARGE")
          /\ ~DownloadReturned
          /\ TempPath \notin staging
    /\ run.statSize = MAX_FILE_SIZE =>
          /\ DownloadReturned
          /\ ~RaisedWith("FILE_TOO_LARGE")

\* a file one byte over the maximum was written and the run has returned
C15_Witness ==
    /\ pc = "returned"
    /\ run.statSize = MAX_FILE_SIZE + 1
    /\ \A i \in 1..Len(log) : log[i].op # "cleanupTempFile"

\* C16: cancelTasksForSchedule(channelId, scheduleId) disarms and removes every
\* table entry of the pair and returns the number of entries it removed;
\* afterwards no entry of the pair remains, and the entries and the timers of
\* every other pair are unchanged.
C16_CancelAllFrame ==
    [][\A p \in Pairs :
          cancelTasksForSchedule(p[1], p[2]) =>
            /\ \A i \in LiveEntries(p) :
                  timers'[activeTasks[i].timeoutId].state # "armed"
            /\ \A i \in 1..Len(activeTasks') :
                  ~SamePair(activeTasks'[i], p[1], p[2])
            /\ cancelTasksForSchedule_ret(p[1], p[2]) =
                  Len(activeTasks) - Len(activeTasks')
            /\ cancelTasksForSchedule_ret(p[1], p[2]) =
                  Cardinality(LiveEntries(p))
            /\ activeTasks' =
                  SelectSeq(activeTasks, LAMBDA t : ~SamePair(t, p[1], p[2]))
            /\ Len(timers') = Len(timers)
            /\ \A h \in 1..Len(timers) :
                  ~SamePair(timers[h], p[1], p[2]) => timers'[h] = timers[h]
      ]_vars

\* the only timer ever armed is disarmed, the table is empty, and no
\* cancelScheduledTask has removed anything: cancelTasksForSchedule did it
C16_Witness ==
    /\ Len(timers) = 1
    /\ timers[1].state = "cleared"
    /\ activeTasks = <<>>
    /\ cancelledArmed = {}

\* C17: when a scheduled task fires its callback invokes the orchestrator
\* exactly once, never raises to the timer whether the run returns a failure
\* or throws, removes the task's entry from the table after the run ends, and
\* never re-arms the task.
C17_FireOnceNoRetry ==
    \A h \in 1..Len(timers) :
        /\ timers[h].state \in {"armed", "cleared", "running", "done"}
        /\ timers[h].invoked =
              IF timers[h].state \in {"running", "done"} THEN 1 ELSE 0
        /\ timers[h].state = "done" =>
              \A i \in 1..Len(activeTasks) : activeTasks[i].timeoutId # h

\* a task has fired and its run has ended, the time of a retry has passed
C17_Witness ==
    \E h \in 1..Len(timers) :
        /\ timers[h].state = "done"
        /\ ~MapHas(activeTasks, timers[h].taskId)
        /\ now >= timers[h].due

\* C18: if the download step fails for any reason, the run returns a failure
\* and no upload call (delegated or service credential) is made in the run.
C18_NoUploadAfterFailedDownload ==
    /\ (\E i \in 1..Len(log) :
           log[i].op \in UploadOps \cup {"getUserOAuthTokens"})
          => DownloadReturned
    /\ (pc = "returned" /\ SessionOpened /\ ~DownloadReturned)
          => ~run.result.success

\* the fetch of the media raised and the run has returned
C18_Witness ==
    /\ pc = "returned"
    /\ \E i \in 1..Len(log) : log[i].op = "downloadMedia" /\ log[i].bytes = -1
    /\ \A i \in 1..Len(log) : log[i].op \notin UploadOps

\* the stored delegated token is expired and there is no refresh token
ExpiredNoRefresh ==
    /\ run.tokens.present
    /\ run.tokens.googleDriveAccessToken # ""
    /\ IsExpired(run.tokens)
    /\ run.tokens.googleDriveRefreshToken = ""

\* C19: when the delegated token is expired and no refresh token exists, or
\* no delegated token exists at all, the run uploads with the service
\* credential and makes no upload attempt with the expired delegated token.
C19_ExpiredTokenNotUsed ==
    \A i \in 1..Len(log) :
        log[i].op = "uploadOAuth" =>
            /\ run.tokens.present
            /\ run.tokens.googleDriveAccessToken # ""
            /\ ~ExpiredNoRefresh

\* C20: the credential fallback is one-shot: within one run each upload
\* strategy is called at most once, also when no delegated token exists and
\* the service-credential upload throws.
C20_EachStrategyOnce ==
    \A op \in UploadOps :
        Cardinality({i \in 1..Len(log) : log[i].op = op}) <= 1

DelegatedPrepOps ==
    {"getUserOAuthTokens", "refreshAccessToken", "updateUserAccessToken"}

UploadsWith(op) == {i \in 1..Len(log) : log[i].op = op}

\* C21: if the delegated-token path throws before the upload call itself
\* (credential lookup, token refresh or persisting the refreshed token fails)
\* the run still attempts the service-credential upload once, and succeeds if
\* that upload succeeds.
C21_FallbackBeforeUpload ==
    \A i \in 1..Len(log) :
        (log[i].op \in DelegatedPrepOps /\ ~log[i].ok /\ ~Awaiting("saFallback")) =>
            /\ Len(log) > i
            /\ log[i + 1].op = "uploadService"
            /\ UploadsWith("uploadService") = {i + 1}
            /\ UploadsWith("uploadOAuth") = {}
            /\ pc = "returned" =>
                  /\ run.result.success = log[i + 1].ok
                  /\ log[i + 1].ok => run.result.driveFileId = log[i + 1].fileId

\* the refreshed token could not be persisted, the service upload succeeded
C21_Witness ==
    /\ pc = "returned"
    /\ run.result.success
    /\ \E i \in 1..Len(log) : log[i].op = "updateUserAccessToken" /\ ~log[i].ok

\* C22: if the upload succeeded and appending the result record or updating
\* the last-video pointer throws, the run still returns success=true with the
\* uploaded asset's id.
C22_PersistFailureSwallowed ==
    \A i \in RecordWrites :
        ~log[i].ok =>
            /\ Awaiting("finally") => run.pending.kind = "return"
            /\ pc \in {"finally", "returned", "hung"}
            /\ pc = "returned" =>
                  /\ run.result.success
                  /\ \E j \in 1..(i - 1) :
                        /\ log[j].op \in UploadOps
                        /\ log[j].ok
                        /\ log[j].fileId = run.result.driveFileId

\* the record was appended, the update of the pointer threw, the run returned
C22_Witness ==
    /\ pc = "returned"
    /\ \E i \in 1..Len(log) : log[i].op = "addRecord" /\ log[i].ok
    /\ \E i \in 1..Len(log) : log[i].op = "updateChannel" /\ ~log[i].ok

\* the window was listed without an anchor and the transport answered
ListedWindow ==
    /\ env.options.telegramMessageId = 0
    /\ \E i \in 1..Len(log) :
          log[i].op = "getMessages" /\ log[i].outcome = "answered"

\* a is more recent than b: by send time, by id when a timestamp is missing
MoreRecent(a, b) ==
    IF a.date # 0 /\ b.date # 0 THEN a.date > b.date ELSE a.id > b.id

\* C23: without an anchor the downloader selects, among the messages of the
\* listed window that qualify as video, the one with the greatest send time,
\* the id being the ordering key of a message without a timestamp: no
\* qualifying message of the window is more recent than the selected one.
C23_MostRecentSelected ==
    (ListedWindow /\ \E i \in 1..Len(log) : log[i].op = "downloadMedia") =>
        \A k \in 1..Len(RecentWindow(env.chat)) :
            IsVideoMessage(env.chat[k]) => ~MoreRecent(env.chat[k], run.videoMessage)

\* the three signals of a video
InlineVideo(m) == m.video = "ok"
DocVideoAttribute(m) == m.doc.present /\ m.doc.attrVideo
DocVideoContainer(m) == m.doc.present /\ MimeIsVideo(m.doc)
AnySignal(m) == InlineVideo(m) \/ DocVideoAttribute(m) \/ DocVideoContainer(m)

\* C24: the video-qualification predicate is the disjunction of three signals
\* (inline video, document with a video attribute, document whose name or
\* MIME type is a video container); any one signal alone is sufficient.
C24_QualificationIsDisjunction ==
    ListedWindow =>
        \A k \in 1..Len(RecentWindow(env.chat)) :
            AnySignal(env.chat[k]) <=>
                \E n \in 1..Len(VideoMessages(RecentWindow(env.chat))) :
                    VideoMessages(RecentWindow(env.chat))[n] = env.chat[k]

\* C25: a message that fails every qualification check is skipped and never
\* aborts the search; the search fails with the no-video-found kind if and
\* only if no message of the window qualifies.
C25_NoVideoIffNoneQualifies ==
    ListedWindow =>
        (RaisedWith("NO_VIDEO_FOUND") <=>
            /\ RunEnding
            /\ \A k \in 1..Len(RecentWindow(env.chat)) : ~AnySignal(env.chat[k]))

\* the anchor lookup was answered with no message
AnchorLookupEmpty ==
    /\ env.options.telegramMessageId # 0
    /\ \E i \in 1..Len(log) :
          log[i].op = "getMessages" /\ log[i].outcome = "answered"
    /\ MessagesById(env.chat, env.options.telegramMessageId) = <<>>

\* C26: each download failure is reported as its own kind, and a kind is
\* reported only for its own condition: message-not-found only when the
\* anchor lookup returned no message, no-video-found only when the listed
\* window holds no video, a timeout kind only when a timer fired.
C26_KindOnlyForItsCondition ==
    /\ RaisedWith("TELEGRAM_MESSAGE_NOT_FOUND") => AnchorLookupEmpty
    /\ RaisedWith("NO_VIDEO_FOUND") =>
          ListedWindow /\ VideoMessages(RecentWindow(env.chat)) = <<>>
    /\ RaisedWith("TELEGRAM_DOWNLOAD_FAILED") =>
          FetchedEmpty \/ run.statSize = 0
    /\ RaisedWith("FILE_TOO_LARGE") => run.statSize > MAX_FILE_SIZE

\* C27: every chat-transport round trip of the downloader is raced against a
\* timer: when the transport has not answered as the timer fires, the download
\* step fails with a timeout kind, and the run never stays at a listing or a
\* media fetch.
C27_TransportCallsBounded ==
    /\ pc = "hung" => run.hungAt \notin {"dl_list", "dl_fetch"}
    /\ \A i \in 1..Len(log) :
          /\ (log[i].op = "getMessages" /\ log[i].outcome = "timeout") =>
                RaisedWith("TELEGRAM_TIMEOUT") /\ ~DownloadReturned
          /\ (log[i].op = "downloadMedia" /\ log[i].bytes = -2) =>
                RaisedWith("TELEGRAM_DOWNLOAD_TIMEOUT") /\ ~DownloadReturned

\* the media fetch was not answered in time and the run has returned
C27_Witness ==
    /\ pc = "returned"
    /\ \E i \in 1..Len(log) : log[i].op = "downloadMedia" /\ log[i].bytes = -2

\* C28: once a scheduled task has fired, its run eventually returns, whatever
\* the collaborators do, a session open, a document-store read or an upload
\* that never answers included: no step of the run blocks indefinitely.
C28_RunEventuallyReturns == <>(pc = "returned")

\* the answers of files.get that fail the validation of the destination
FolderGets(codes, mimeTypes) ==
    {i \in 1..Len(log) :
        /\ log[i].op = "files.get"
        /\ log[i].code \in codes
        /\ log[i].mimeType \in mimeTypes}

FolderMissing == FolderGets({404}, {""}) # {}
FolderDenied == FolderGets({403}, {""}) # {}
FolderIsNoFolder == FolderGets({200}, DriveMimeTypes \ {FolderMimeType}) # {}

\* C29: uploadFileToDriveWithOAuth validates the destination before uploading:
\* a missing folder, an id that is not a folder and insufficient permission
\* each raise their own kind, each error carries the folder id, and in all
\* three cases no files.create request is issued.
C29_FolderValidated ==
    (FolderMissing \/ FolderDenied \/ FolderIsNoFolder) =>
        /\ pc = "up_threw"
        /\ \A i \in 1..Len(log) : log[i].op # "files.create"
        /\ FolderMissing => Includes(run.error, "GOOGLE_DRIVE_FOLDER_NOT_FOUND")
        /\ FolderIsNoFolder => Includes(run.error, "GOOGLE_DRIVE_NOT_A_FOLDER")
        /\ FolderDenied => Includes(run.error, "GOOGLE_DRIVE_PERMISSION_DENIED")
        /\ Includes(run.error, env.params.parentFolderId)

\* C30: uploadFileToDriveWithOAuth never deletes or modifies the local file it
\* is given, on success or on any failure.
C30_UploaderKeepsFile ==
    /\ staging = env.filesAtCall
    /\ \A i \in 1..Len(log) :
          log[i].op \in {"fs.access", "files.get", "fs.stat", "files.create"}

\* the upload was made, with success or with an error, and the file is there
C30_Witness ==
    /\ pc \in {"up_returned", "up_threw"}
    /\ \E i \in 1..Len(log) : log[i].op = "files.create"
    /\ env.params.filePath \in staging

\* the errors connect and sendMessage rejected with in this call
SendFailures ==
    {log[i].error : i \in {j \in 1..Len(log) :
                             /\ log[j].op \in {"connect", "sendMessage"}
                             /\ log[j].error # NoException}}

SendAttempts(op) == Cardinality({i \in 1..Len(log) : log[i].op = op})

AuthCodes ==
    {"AUTH_KEY_UNREGISTERED", "SESSION_REVOKED", "USER_DEACTIVATED",
     "PASSWORD_HASH_INVALID"}

\* C31: when connect or send fails with an auth error the call raises
\* TelegramSessionExpiredError, every other error of connect or send is
\* re-raised unchanged, and neither the connect nor the send is attempted a
\* second time within the call.
C31_SessionExpiredTerminal ==
    /\ SendAttempts("connect") <= 1
    /\ SendAttempts("sendMessage") <= 1
    /\ Cardinality(SendFailures) <= 1
    /\ \A err \in SendFailures :
          /\ pc \in {"send_finally", "send_threw"}
          /\ pc = "send_threw" =>
                IF \E code \in AuthCodes : Includes(err.message, code)
                THEN run.thrown.class = "TelegramSessionExpiredError"
                ELSE run.thrown = err

\* the send was rejected because the session was revoked and the call threw
C31_Witness ==
    /\ pc = "send_threw"
    /\ \E i \in 1..Len(log) :
          /\ log[i].op = "sendMessage"
          /\ Includes(log[i].error.message, "SESSION_REVOKED")
    /\ run.thrown = SessionExpired

\* the timers that are armed and have not fired
ArmedHandles == {h \in 1..Len(timers) : timers[h].state = "armed"}

\* C32: after any sequence of schedule, cancel, cancelAll and fire events
\* (two schedule calls within one millisecond and coinciding ids included)
\* every timer that is armed and not yet fired belongs to a task stored in
\* the table under its own id, and distinct live tasks never share an id.
C32_ArmedTimerHasEntry ==
    /\ \A h \in ArmedHandles :
          /\ MapHas(activeTasks, timers[h].taskId)
          /\ MapGet(activeTasks, timers[h].taskId).timeoutId = h
    /\ \A i, j \in 1..Len(activeTasks) :
          i # j => activeTasks[i].id # activeTasks[j].id

\* the callbacks of the pair that are awaiting their run
RunsInFlight(p) ==
    {h \in 1..Len(timers) :
        timers[h].state = "running" /\ SamePair(timers[h], p[1], p[2])}

\* C33: at any time at most one orchestration run started by the scheduler
\* is in flight for a (channelId, scheduleId) pair.
C33_OneRunPerPair ==
    \A p \in Pairs : Cardinality(RunsInFlight(p)) <= 1

\* C34: a scheduleAutoDownload that raises synchronously because
\* telegramMessageInfo is missing leaves the table unchanged: the existing
\* task of the pair is neither cancelled nor removed and no timer is armed.
C34_MissingInfoNoChange ==
    [][\A p \in Pairs :
          scheduleAutoDownloadMissingInfo(p[1], p[2]) =>
            /\ activeTasks' = activeTasks
            /\ timers' = timers
            /\ \A i \in LiveEntries(p) :
                  /\ MapHas(activeTasks', activeTasks[i].id)
                  /\ timers'[activeTasks[i].timeoutId].state =
                        timers[activeTasks[i].timeoutId].state
      ]_vars

\* a task of a pair is in the table with its timer armed: the state in which
\* the call without telegramMessageInfo is made, and the state it leaves
C34_Witness ==
    \E p \in Pairs :
        \E i \in LiveEntries(p) :
            /\ timers[activeTasks[i].timeoutId].state = "armed"
            /\ ENABLED scheduleAutoDownloadMissingInfo(p[1], p[2])

Cleanups == {i \in 1..Len(log) : log[i].op = "cleanupTempFile"}

Uploads == {i \in 1..Len(log) : log[i].op \in UploadOps}

\* C35: within a run the staged file is not deleted before the last upload
\* attempt of the run has finished: it exists when each upload starts, the
\* service-credential fallback after a failed delegated upload included, and
\* it is deleted exactly once afterwards.
C35_FileKeptUntilLastUpload ==
    /\ \A i \in Uploads : log[i].fileExists /\ \A j \in Cleanups : i < j
    /\ (pc \in {"oauthUpload", "saDirect", "saFallback"}
           \/ Awaiting("oauthUpload") \/ Awaiting("saDirect")
           \/ Awaiting("saFallback")) =>
          /\ run.tempFilePath \in staging
          /\ Cleanups = {}
    /\ Cardinality(Cleanups) <= 1
    /\ (pc = "returned" /\ Uploads # {}) =>
          /\ Cardinality(Cleanups) = 1
          /\ TempPath \notin staging

\* the delegated upload failed, the fallback found the file and failed too,
\* and the run has returned with the file deleted
C35_Witness ==
    /\ pc = "returned"
    /\ \E i, j \in Uploads :
          /\ i < j
          /\ log[i].op = "uploadOAuth" /\ ~log[i].ok
          /\ log[j].op = "uploadService" /\ ~log[j].ok /\ log[j].fileExists
    /\ Cardinality(Cleanups) = 1
    /\ TempPath \notin staging

ListOutcomes == {log[i].outcome : i \in {j \in 1..Len(log) : log[j].op = "getMessages"}}

FetchOutcomes == {log[i].bytes : i \in {j \in 1..Len(log) : log[j].op = "downloadMedia"}}

\* C36: a round trip raced against a timeout is decided by whichever of the
\* completion and the timeout happens first, and the later event has no
\* effect: a media fetch that completes after its timeout never writes a file
\* into the staging directory, and a timer that fires after the round trip
\* completed never turns the result into a timeout failure.
C36_RaceDecidedOnce ==
    /\ "timeout" \in ListOutcomes =>
          /\ FetchOutcomes = {}
          /\ staging = {}
          /\ RunEnding => RaisedWith("TELEGRAM_TIMEOUT")
    /\ -2 \in FetchOutcomes =>
          /\ staging = {}
          /\ RunEnding => RaisedWith("TELEGRAM_DOWNLOAD_TIMEOUT")
    /\ "answered" \in ListOutcomes => ~RaisedWith("TELEGRAM_TIMEOUT")
    /\ (FetchOutcomes # {} /\ -2 \notin FetchOutcomes) =>
          ~RaisedWith("TELEGRAM_DOWNLOAD_TIMEOUT")
    /\ (run.late = {} /\ FetchOutcomes \cap {-1, 0} # {} /\ pc = "returned") =>
          staging = {}

\* the fetch lost to its timer, the run has returned its failure, and the
\* fetch has completed since
C36_Witness ==
    /\ pc = "returned"
    /\ -2 \in FetchOutcomes
    /\ "fetchAnswer" \notin run.late

PointerUpdates == {i \in 1..Len(log) : log[i].op = "updateChannel"}

\* C37: in the persist step the channel's last-video pointer is updated only
\* if appending the result record succeeded in the same run: when the append
\* throws, the update is not attempted and the channel document is left as
\* it was.
C37_PointerOnlyAfterAppend ==
    /\ \A i \in PointerUpdates :
          /\ i > 1
          /\ log[i - 1].op = "addRecord"
          /\ log[i - 1].ok
    /\ \A i \in 1..Len(log) :
          (log[i].op = "addRecord" /\ ~log[i].ok) =>
              /\ PointerUpdates = {}
              /\ pc # "recUpdate" /\ ~Awaiting("recUpdate")

\* the append threw and the run has returned without touching the channel
C37_Witness ==
    /\ pc = "returned"
    /\ run.result.success
    /\ \E i \in 1..Len(log) : log[i].op = "addRecord" /\ ~log[i].ok
    /\ PointerUpdates = {}

====
